---- MODULE Spec2Model ----
(***************************************************************************)
(* Traffic detection client firmware (ESP32-S3, LilyGo camera).            *)
(*                                                                         *)
(* Two firmware listings are modelled side by side:                        *)
(*   variant "A" = src/esp32_traffic_client.ino                            *)
(*   variant "B" = src/unnamed/part_000                                    *)
(* They share loop(), sendImageToServer() and handleFailure() and differ   *)
(* in setup() (blinkError() versus while(1);, bounded versus unbounded     *)
(* WiFi wait) and in the connectivity pre-check of loop() (A calls         *)
(* connectWiFi() and falls through, B calls WiFi.begin(), delays, returns).*)
(*                                                                         *)
(* Time: millis() is an unsigned counter; it is modelled in milliseconds,  *)
(* advancing by TickMs, modulo 2^ClockBits ticks.  The durations of        *)
(* delay(), of the camera call and of the POST are not fixed: the clock    *)
(* may advance between any two program steps.                              *)
(***************************************************************************)
EXTENDS Integers, Sequences, FiniteSets, TLC

\* ------------------------------------------------------------------ bounds
IntBits   == 4      \* width of the model's `int` (two's complement)
ClockBits == 2      \* width of the model's `unsigned long`, in ticks
TickMs    == 1000   \* granularity of the clock, in milliseconds

\* ------------------------------------------------------- program constants
CAPTURE_INTERVAL_MS == 3000
MAX_FAILURES        == 5
HTTP_CODE_OK        == 200

INT_MAX  == 2^(IntBits - 1) - 1
INT_MIN  == -(2^(IntBits - 1))
ClockMod == (2^ClockBits) * TickMs
SinceCap == ClockMod + CAPTURE_INTERVAL_MS

Variants == {"A", "B"}

\* HTTPClient::POST results: 200, other statuses, negative transport errors
HttpCodes == {200, 404, 500, -1}

\* Response bodies, by what deserializeJson and doc[...] make of them.
\* wf = FALSE is text that deserializeJson rejects.
MalformedBody ==
  [wf |-> FALSE, hasCars |-> FALSE, cars |-> 0, hasDecision |-> FALSE, decision |-> ""]
DecisionTexts == {"RED", "GREEN", "YELLOW", "red", "ERROR"}
CarCounts == {1, 4}
ObjectBodies ==
  {[wf |-> TRUE, hasCars |-> hc, cars |-> c, hasDecision |-> hd, decision |-> d] :
      hc \in BOOLEAN, c \in CarCounts \cup {0}, hd \in BOOLEAN,
      d \in DecisionTexts \cup {""}}
Bodies ==
  {MalformedBody} \cup
  {b \in ObjectBodies : (b.hasCars <=> b.cars # 0) /\ (b.hasDecision <=> b.decision # "")}

\* Bodies sent with a status other than 200 (never read by the client): an
\* error page, or JSON that names a decision all the same
ErrorBodies ==
  {MalformedBody} \cup {b \in Bodies : b.decision = "RED" /\ ~b.hasCars}

VARIABLES
  variant,              \* which listing runs
  pc,                   \* position in setup() / loop() / callee
  i,                    \* loop index of the ready flash in setup()
  now,                  \* millis()
  wifi,                 \* WiFi.status() == WL_CONNECTED
  red, green,           \* output levels of RED_LED, GREEN_LED
  lastCapture,          \* unsigned long lastCapture
  consecutiveFailures,  \* int consecutiveFailures
  decision,             \* String decision (local of loop())
  fbOut,                \* frames obtained from esp_camera_fb_get and not yet returned
  sinceFire,            \* real time since the last fired cycle (-1: none yet), saturating
  failOpen,             \* a failing cycle left the streak >= MAX_FAILURES, no decision since
  iter,                 \* history of the current loop() iteration (resp: the body
                        \* read after the POST, kept until the decision has been applied)
  hist,                 \* history of the run: initialisations that succeeded, in order,
                        \* and the outcome of the most recently fired cycle
  enc                   \* request body under construction (multipart encoder alone)

vars == <<variant, pc, i, now, wifi, red, green, lastCapture,
          consecutiveFailures, decision, fbOut, sinceFire, failOpen, iter,
          hist, enc>>

\* -------------------------------------------------------------- helpers
Min(a, b) == IF a < b THEN a ELSE b

\* record of what has happened since loop() was entered
IterStart(cf, r, g) ==
  [down |-> FALSE, fired |-> FALSE,
   failBefore |-> cf, redBefore |-> r, greenBefore |-> g,
   acq |-> "none", alloc |-> "none", bodies |-> 0, posts |-> 0, hf |-> 0,
   code |-> 0, resp |-> <<>>, outcome |-> "none"]

\* nothing initialised yet, no cycle fired yet
HistStart ==
  [inits |-> <<>>,
   last |-> [outcome |-> "none", ok |-> FALSE, red |-> FALSE, green |-> FALSE, streak |-> 0]]

\* the encoder is not being exercised
EncIdle ==
  [pc |-> "idle", image |-> <<>>, totalLen |-> 0, allocated |-> 0, body |-> <<>>,
   postLen |-> 0, sent |-> <<>>]

\* millis() - t in unsigned arithmetic
ElapsedSince(t) == (now - t) % ClockMod

\* faulty gate that compares the two readings without unsigned wraparound
\* (sensitivity of C22)
GateOpen_NoWrap == now - lastCapture >= CAPTURE_INTERVAL_MS
\* faulty gate that opens one tick early (sensitivity of C7)
GateOpen_Early == ElapsedSince(lastCapture) >= CAPTURE_INTERVAL_MS - TickMs
\* millis() - lastCapture >= CAPTURE_INTERVAL_MS
GateOpen == ElapsedSince(lastCapture) >= CAPTURE_INTERVAL_MS

\* consecutiveFailures++ on an int: past INT_MAX the stored value wraps
IncInt(n) == IF n = INT_MAX THEN INT_MIN ELSE n + 1

\* doc["decision"] converted to const char*: <<>> stands for nullptr
DocDecision(body) == IF body.hasDecision THEN <<body.decision>> ELSE <<>>

\* String(const char*): a null pointer gives the empty String
ArduinoString(ptr) == IF ptr = <<>> THEN "" ELSE ptr[1]

\* faulty interpretation that normalises the case of the decision (sensitivity of C9)
Upper(s) == IF s = "red" THEN "RED" ELSE IF s = "green" THEN "GREEN" ELSE s
SendResult_Normalised(code, resp) ==
  IF code = HTTP_CODE_OK
    THEN IF ~resp[1].wf THEN "ERROR" ELSE Upper(ArduinoString(DocDecision(resp[1])))
    ELSE "ERROR"
\* faulty interpretation that applies a car-count threshold of its own when the
\* response carries a count (sensitivity of C16)
SendResult_Threshold(code, resp) ==
  IF code = HTTP_CODE_OK
    THEN IF ~resp[1].wf THEN "ERROR"
         ELSE IF resp[1].hasCars
                THEN (IF resp[1].cars > 3 THEN "RED" ELSE "GREEN")
                ELSE ArduinoString(DocDecision(resp[1]))
    ELSE "ERROR"
\* faulty interpretation that parses the body whatever the status (sensitivity of C20)
SendResult_IgnoreStatus(code, resp) ==
  IF resp = <<>> \/ ~resp[1].wf THEN "ERROR" ELSE ArduinoString(DocDecision(resp[1]))
\* value returned by sendImageToServer once POST has returned `code`;
\* resp = <<body>> is the response body, read (http.getString()) only when code is 200
SendResult(code, resp) ==
  IF code = HTTP_CODE_OK
    THEN IF ~resp[1].wf THEN "ERROR" ELSE ArduinoString(DocDecision(resp[1]))
    ELSE "ERROR"

\* ------------------------------------------------------------------ Init
Init ==
  /\ variant \in Variants
  /\ pc = "boot"
  /\ i = 0
  /\ now = 0
  /\ wifi = FALSE
  /\ red = FALSE
  /\ green = FALSE
  /\ lastCapture = 0
  /\ consecutiveFailures = 0
  /\ decision = ""
  /\ fbOut = 0
  /\ sinceFire = -1
  /\ failOpen = FALSE
  /\ iter = IterStart(0, FALSE, FALSE)
  /\ hist = HistStart
  /\ enc = EncIdle

\* ----------------------------------------------------------- environment
PreWiFiPcs == {"boot", "init_pmu", "init_camera", "wifi_begin"}
HaltPcs == {"blink_on", "blink_off", "spin"}

\* the millisecond clock advances
Tick ==
  /\ now' = (now + TickMs) % ClockMod
  /\ sinceFire' = IF sinceFire = -1 THEN -1 ELSE Min(sinceFire + TickMs, SinceCap)
  /\ UNCHANGED <<variant, pc, i, wifi, red, green, lastCapture,
                 consecutiveFailures, decision, fbOut, failOpen, iter, hist, enc>>

\* the station associates (only after WiFi.begin)
WiFiUp ==
  /\ ~wifi
  /\ pc \notin PreWiFiPcs \cup HaltPcs
  /\ wifi' = TRUE
  /\ UNCHANGED <<variant, pc, i, now, red, green, lastCapture,
                 consecutiveFailures, decision, fbOut, sinceFire, failOpen, iter, hist, enc>>

\* the connection is lost
WiFiDown ==
  /\ wifi
  /\ wifi' = FALSE
  /\ UNCHANGED <<variant, pc, i, now, red, green, lastCapture,
                 consecutiveFailures, decision, fbOut, sinceFire, failOpen, iter, hist, enc>>

\* ----------------------------------------------------------------- setup
Halt == IF variant = "A" THEN "blink_on" ELSE "spin"

\* Serial.begin, delay, pinMode, both LEDs LOW
SetupBoot ==
  /\ pc = "boot"
  /\ red' = FALSE
  /\ green' = FALSE
  /\ pc' = "init_pmu"
  /\ UNCHANGED <<variant, i, now, wifi, lastCapture,
                 consecutiveFailures, decision, fbOut, sinceFire, failOpen, iter, hist, enc>>

\* initPMU() / PMU.begin: failure halts
SetupPMU ==
  /\ pc = "init_pmu"
  /\ \E ok \in BOOLEAN :
       /\ pc' = IF ok THEN "init_camera" ELSE Halt
       /\ hist' = IF ok THEN [hist EXCEPT !.inits = Append(@, "pmu")] ELSE hist
  /\ UNCHANGED <<variant, i, now, wifi, red, green, lastCapture,
                 consecutiveFailures, decision, fbOut, sinceFire, failOpen, iter, enc>>

\* faulty camera bring-up whose failure is only logged (sensitivity of C11)
SetupCamera_Ignore ==
  /\ pc = "init_camera"
  /\ \E ok \in BOOLEAN :
       /\ pc' = "wifi_begin"
       /\ hist' = IF ok THEN [hist EXCEPT !.inits = Append(@, "camera")] ELSE hist
  /\ UNCHANGED <<variant, i, now, wifi, red, green, lastCapture,
                 consecutiveFailures, decision, fbOut, sinceFire, failOpen, iter, enc>>
\* initCamera() / esp_camera_init: failure halts
SetupCamera ==
  /\ pc = "init_camera"
  /\ \E ok \in BOOLEAN :
       /\ pc' = IF ok THEN "wifi_begin" ELSE Halt
       /\ hist' = IF ok THEN [hist EXCEPT !.inits = Append(@, "camera")] ELSE hist
  /\ UNCHANGED <<variant, i, now, wifi, red, green, lastCapture,
                 consecutiveFailures, decision, fbOut, sinceFire, failOpen, iter, enc>>

\* WiFi.mode(WIFI_STA); WiFi.begin(...)
SetupWiFiBegin ==
  /\ pc = "wifi_begin"
  /\ pc' = "setup_connect"
  /\ UNCHANGED <<variant, i, now, wifi, red, green, lastCapture,
                 consecutiveFailures, decision, fbOut, sinceFire, failOpen, iter, hist, enc>>

\* the wait loop sees WL_CONNECTED (A: connectWiFi returns true)
ConnectDone ==
  /\ \/ pc = "setup_connect"
     \/ pc = "loop_connect" /\ variant = "A"
  /\ wifi
  /\ pc' = IF pc = "setup_connect" THEN "flash_on" ELSE "gate"
  /\ hist' = IF pc = "setup_connect" THEN [hist EXCEPT !.inits = Append(@, "wifi")] ELSE hist
  /\ UNCHANGED <<variant, i, now, wifi, red, green, lastCapture,
                 consecutiveFailures, decision, fbOut, sinceFire, failOpen, iter, enc>>

\* faulty timeout handling that treats a failed reconnection in loop() as fatal
\* (sensitivity of C12)
ConnectTimeout_Fatal ==
  /\ variant = "A"
  /\ pc \in {"setup_connect", "loop_connect"}
  /\ ~wifi
  /\ pc' = "blink_on"
  /\ UNCHANGED <<variant, i, now, wifi, red, green, lastCapture,
                 consecutiveFailures, decision, fbOut, sinceFire, failOpen, iter, hist, enc>>
\* A only: millis() - start > WIFI_TIMEOUT_MS while still not connected;
\* connectWiFi returns false: setup() calls blinkError(), loop() goes on
ConnectTimeout ==
  /\ variant = "A"
  /\ pc \in {"setup_connect", "loop_connect"}
  /\ ~wifi
  /\ pc' = IF pc = "setup_connect" THEN "blink_on" ELSE "gate"
  /\ UNCHANGED <<variant, i, now, wifi, red, green, lastCapture,
                 consecutiveFailures, decision, fbOut, sinceFire, failOpen, iter, hist, enc>>

\* ready flash: digitalWrite(GREEN_LED, HIGH); delay(200)
FlashOn ==
  /\ pc = "flash_on"
  /\ green' = TRUE
  /\ pc' = "flash_off"
  /\ UNCHANGED <<variant, i, now, wifi, red, lastCapture,
                 consecutiveFailures, decision, fbOut, sinceFire, failOpen, iter, hist, enc>>

\* digitalWrite(GREEN_LED, LOW); delay(200); i++ ; after 3 rounds setup() returns
FlashOff ==
  /\ pc = "flash_off"
  /\ green' = FALSE
  /\ IF i + 1 < 3
       THEN /\ i' = i + 1
            /\ pc' = "flash_on"
            /\ iter' = iter
       ELSE /\ i' = 0
            /\ pc' = "loop_check"
            /\ iter' = IterStart(consecutiveFailures, red, FALSE)
  /\ UNCHANGED <<variant, now, wifi, red, lastCapture,
                 consecutiveFailures, decision, fbOut, sinceFire, failOpen, hist, enc>>

\* blinkError(): digitalWrite(RED_LED, HIGH); delay(200)
BlinkOn ==
  /\ pc = "blink_on"
  /\ red' = TRUE
  /\ pc' = "blink_off"
  /\ UNCHANGED <<variant, i, now, wifi, green, lastCapture,
                 consecutiveFailures, decision, fbOut, sinceFire, failOpen, iter, hist, enc>>

\* blinkError(): digitalWrite(RED_LED, LOW); delay(200)
BlinkOff ==
  /\ pc = "blink_off"
  /\ red' = FALSE
  /\ pc' = "blink_on"
  /\ UNCHANGED <<variant, i, now, wifi, green, lastCapture,
                 consecutiveFailures, decision, fbOut, sinceFire, failOpen, iter, hist, enc>>

\* while (1); of variant B's setup(): nothing changes any more
Spin ==
  /\ pc = "spin"
  /\ UNCHANGED vars

\* ------------------------------------------------------------------ loop
\* if (WiFi.status() != WL_CONNECTED) ... : connected, go on to the timer gate
LoopCheckUp ==
  /\ pc = "loop_check"
  /\ wifi
  /\ pc' = "gate"
  /\ UNCHANGED <<variant, i, now, wifi, red, green, lastCapture,
                 consecutiveFailures, decision, fbOut, sinceFire, failOpen, iter, hist, enc>>

\* not connected.  A: connectWiFi() is entered (WiFi.mode, WiFi.begin) and
\* loop() continues after it; B: WiFi.begin(); delay(5000); return
LoopCheckDown ==
  /\ pc = "loop_check"
  /\ ~wifi
  /\ iter' = [iter EXCEPT !.down = TRUE]
  /\ pc' = IF variant = "A" THEN "loop_connect" ELSE "ret"
  /\ UNCHANGED <<variant, i, now, wifi, red, green, lastCapture,
                 consecutiveFailures, decision, fbOut, sinceFire, failOpen, hist, enc>>

\* the period has elapsed: lastCapture = millis(), the cycle fires
GateFire ==
  /\ pc = "gate"
  /\ GateOpen
  /\ lastCapture' = now
  /\ iter' = [iter EXCEPT !.fired = TRUE]
  /\ sinceFire' = 0
  /\ pc' = "acquire"
  /\ UNCHANGED <<variant, i, now, wifi, red, green,
                 consecutiveFailures, decision, fbOut, failOpen, hist, enc>>

\* the period has not elapsed: loop() returns
GateSkip ==
  /\ pc = "gate"
  /\ ~GateOpen
  /\ pc' = "ret"
  /\ UNCHANGED <<variant, i, now, wifi, red, green, lastCapture,
                 consecutiveFailures, decision, fbOut, sinceFire, failOpen, iter, hist, enc>>

\* faulty acquisition that hands the frame back at once and uploads from the
\* released buffer (sensitivity of C21)
AcquireOk_ReleaseFirst ==
  /\ pc = "acquire"
  /\ fbOut' = fbOut
  /\ iter' = [iter EXCEPT !.acq = "ok"]
  /\ pc' = "send_malloc"
  /\ UNCHANGED <<variant, i, now, wifi, red, green, lastCapture,
                 consecutiveFailures, decision, sinceFire, failOpen, hist, enc>>
\* esp_camera_fb_get() returns a frame
AcquireOk ==
  /\ pc = "acquire"
  /\ fbOut' = fbOut + 1
  /\ iter' = [iter EXCEPT !.acq = "ok"]
  /\ pc' = "send_malloc"
  /\ UNCHANGED <<variant, i, now, wifi, red, green, lastCapture,
                 consecutiveFailures, decision, sinceFire, failOpen, hist, enc>>

\* faulty NULL-frame path that goes on to the upload (sensitivity of C10)
AcquireFail_Upload ==
  /\ pc = "acquire"
  /\ iter' = [iter EXCEPT !.acq = "fail"]
  /\ pc' = "send_malloc"
  /\ UNCHANGED <<variant, i, now, wifi, red, green, lastCapture,
                 consecutiveFailures, decision, fbOut, sinceFire, failOpen, hist, enc>>
\* esp_camera_fb_get() returns NULL: handleFailure(); return
AcquireFail ==
  /\ pc = "acquire"
  /\ iter' = [iter EXCEPT !.acq = "fail"]
  /\ pc' = "hf"
  /\ UNCHANGED <<variant, i, now, wifi, red, green, lastCapture,
                 consecutiveFailures, decision, fbOut, sinceFire, failOpen, hist, enc>>

\* sendImageToServer: malloc(totalLen) succeeds
SendMallocOk ==
  /\ pc = "send_malloc"
  /\ iter' = [iter EXCEPT !.alloc = "ok"]
  /\ pc' = "send_build"
  /\ UNCHANGED <<variant, i, now, wifi, red, green, lastCapture,
                 consecutiveFailures, decision, fbOut, sinceFire, failOpen, hist, enc>>

\* faulty allocation check that goes on to the POST (sensitivity of C17)
SendMallocFail_Post ==
  /\ pc = "send_malloc"
  /\ iter' = [iter EXCEPT !.alloc = "fail"]
  /\ pc' = "send_post"
  /\ UNCHANGED <<variant, i, now, wifi, red, green, lastCapture,
                 consecutiveFailures, decision, fbOut, sinceFire, failOpen, hist, enc>>
\* malloc fails: return "ERROR"
SendMallocFail ==
  /\ pc = "send_malloc"
  /\ decision' = "ERROR"
  /\ iter' = [iter EXCEPT !.alloc = "fail"]
  /\ pc' = "fb_return"
  /\ UNCHANGED <<variant, i, now, wifi, red, green, lastCapture,
                 consecutiveFailures, fbOut, sinceFire, failOpen, hist, enc>>

\* the three memcpy calls that build the request body
SendBuild ==
  /\ pc = "send_build"
  /\ iter' = [iter EXCEPT !.bodies = @ + 1]
  /\ pc' = "send_post"
  /\ UNCHANGED <<variant, i, now, wifi, red, green, lastCapture,
                 consecutiveFailures, decision, fbOut, sinceFire, failOpen, hist, enc>>

\* http.POST(body, totalLen); free(body); interpretation of the response.
\* Without a connection POST cannot obtain a status from the server.
\* resp is the body the server sent with its status (none on a transport error).
SendPost ==
  /\ pc = "send_post"
  /\ \E code \in (IF wifi THEN HttpCodes ELSE {c \in HttpCodes : c < 0}) :
       \E resp \in (IF code = HTTP_CODE_OK THEN {<<b>> : b \in Bodies}
                    ELSE IF code > 0 THEN {<<b>> : b \in ErrorBodies}
                    ELSE {<<>>}) :
         /\ decision' = SendResult(code, resp)
         /\ iter' = [iter EXCEPT !.posts = @ + 1, !.code = code, !.resp = resp]
  /\ pc' = "fb_return"
  /\ UNCHANGED <<variant, i, now, wifi, red, green, lastCapture,
                 consecutiveFailures, fbOut, sinceFire, failOpen, hist, enc>>

\* faulty release that keeps the frame when the upload failed (sensitivity of C6)
FbReturn_SkipOnError ==
  /\ pc = "fb_return"
  /\ fbOut' = IF decision = "ERROR" THEN fbOut ELSE fbOut - 1
  /\ pc' = "apply"
  /\ UNCHANGED <<variant, i, now, wifi, red, green, lastCapture,
                 consecutiveFailures, decision, sinceFire, failOpen, iter, hist, enc>>
\* esp_camera_fb_return(fb)
FbReturn ==
  /\ pc = "fb_return"
  /\ fbOut' = fbOut - 1
  /\ pc' = "apply"
  /\ UNCHANGED <<variant, i, now, wifi, red, green, lastCapture,
                 consecutiveFailures, decision, sinceFire, failOpen, iter, hist, enc>>

\* decision == "RED": digitalWrite(RED_LED, HIGH)
ApplyRed ==
  /\ pc = "apply"
  /\ decision = "RED"
  /\ red' = TRUE
  /\ iter' = [iter EXCEPT !.outcome = "RED"]
  /\ pc' = "red_2"
  /\ UNCHANGED <<variant, i, now, wifi, green, lastCapture,
                 consecutiveFailures, decision, fbOut, sinceFire, failOpen, hist, enc>>

\* faulty RED branch that leaves GREEN_LED as it was (sensitivity of C19)
ApplyRed2_KeepGreen ==
  /\ pc = "red_2"
  /\ consecutiveFailures' = 0
  /\ failOpen' = FALSE
  /\ iter' = [iter EXCEPT !.resp = <<>>]
  /\ pc' = "ret"
  /\ UNCHANGED <<variant, i, now, wifi, red, green, lastCapture,
                 decision, fbOut, sinceFire, hist, enc>>
\* digitalWrite(GREEN_LED, LOW); consecutiveFailures = 0
ApplyRed2 ==
  /\ pc = "red_2"
  /\ green' = FALSE
  /\ consecutiveFailures' = 0
  /\ failOpen' = FALSE
  /\ iter' = [iter EXCEPT !.resp = <<>>]
  /\ pc' = "ret"
  /\ UNCHANGED <<variant, i, now, wifi, red, lastCapture,
                 decision, fbOut, sinceFire, hist, enc>>

\* decision == "GREEN": digitalWrite(RED_LED, LOW)
ApplyGreen ==
  /\ pc = "apply"
  /\ decision # "RED"
  /\ decision = "GREEN"
  /\ red' = FALSE
  /\ iter' = [iter EXCEPT !.outcome = "GREEN"]
  /\ pc' = "green_2"
  /\ UNCHANGED <<variant, i, now, wifi, green, lastCapture,
                 consecutiveFailures, decision, fbOut, sinceFire, failOpen, hist, enc>>

\* faulty GREEN branch that toggles the indicator instead of setting it
\* (sensitivity of C14)
ApplyGreen2_Toggle ==
  /\ pc = "green_2"
  /\ green' = ~green
  /\ consecutiveFailures' = 0
  /\ failOpen' = FALSE
  /\ iter' = [iter EXCEPT !.resp = <<>>]
  /\ pc' = "ret"
  /\ UNCHANGED <<variant, i, now, wifi, red, lastCapture,
                 decision, fbOut, sinceFire, hist, enc>>
\* digitalWrite(GREEN_LED, HIGH); consecutiveFailures = 0
ApplyGreen2 ==
  /\ pc = "green_2"
  /\ green' = TRUE
  /\ consecutiveFailures' = 0
  /\ failOpen' = FALSE
  /\ iter' = [iter EXCEPT !.resp = <<>>]
  /\ pc' = "ret"
  /\ UNCHANGED <<variant, i, now, wifi, red, lastCapture,
                 decision, fbOut, sinceFire, hist, enc>>

\* else: handleFailure()
ApplyElse ==
  /\ pc = "apply"
  /\ decision # "RED"
  /\ decision # "GREEN"
  /\ iter' = [iter EXCEPT !.outcome = "UNKNOWN"]
  /\ pc' = "hf"
  /\ UNCHANGED <<variant, i, now, wifi, red, green, lastCapture,
                 consecutiveFailures, decision, fbOut, sinceFire, failOpen, hist, enc>>

\* what the cycle that is ending did: the branch it took, whether that
\* branch rests on a frame, an HTTP 200 and a decision string equal to it,
\* and the indicator levels and the streak it leaves
CycleSummary ==
  [outcome |-> iter.outcome,
   ok |-> iter.acq = "ok" /\ iter.code = HTTP_CODE_OK /\ decision = iter.outcome,
   red |-> red, green |-> green, streak |-> consecutiveFailures]

\* loop() returns and is called again
LoopReturn ==
  /\ pc = "ret"
  /\ pc' = "loop_check"
  /\ decision' = ""
  /\ iter' = IterStart(consecutiveFailures, red, green)
  /\ hist' = IF iter.fired THEN [hist EXCEPT !.last = CycleSummary] ELSE hist
  /\ UNCHANGED <<variant, i, now, wifi, red, green, lastCapture,
                 consecutiveFailures, fbOut, sinceFire, failOpen, enc>>

\* --------------------------------------------------------- handleFailure
\* consecutiveFailures++; if (consecutiveFailures >= MAX_FAILURES).
\* At INT_MAX the increment overflows a signed int: the stored value wraps,
\* and the comparison may be compiled on the wrapped value or as if no
\* overflow had happened.
HandleFailure ==
  /\ pc = "hf"
  /\ consecutiveFailures' = IncInt(consecutiveFailures)
  /\ \E ge \in (IF consecutiveFailures = INT_MAX
                  THEN BOOLEAN
                  ELSE {consecutiveFailures + 1 >= MAX_FAILURES}) :
       pc' = IF ge THEN "hf_open" ELSE "hf_blink"
  /\ failOpen' = (failOpen \/ consecutiveFailures' >= MAX_FAILURES)
  /\ iter' = [iter EXCEPT !.hf = @ + 1, !.outcome = "UNKNOWN", !.code = 0, !.resp = <<>>]
  /\ UNCHANGED <<variant, i, now, wifi, red, green, lastCapture,
                 decision, fbOut, sinceFire, hist, enc>>

\* fail-safe branch: digitalWrite(RED_LED, LOW)
FailOpenRed ==
  /\ pc = "hf_open"
  /\ red' = FALSE
  /\ pc' = "hf_open2"
  /\ UNCHANGED <<variant, i, now, wifi, green, lastCapture,
                 consecutiveFailures, decision, fbOut, sinceFire, failOpen, iter, hist, enc>>

\* digitalWrite(GREEN_LED, HIGH)
FailOpenGreen ==
  /\ pc = "hf_open2"
  /\ green' = TRUE
  /\ pc' = "ret"
  /\ UNCHANGED <<variant, i, now, wifi, red, lastCapture,
                 consecutiveFailures, decision, fbOut, sinceFire, failOpen, iter, hist, enc>>

\* blink branch: digitalWrite(RED_LED, HIGH)
FaultBlinkRedOn ==
  /\ pc = "hf_blink"
  /\ red' = TRUE
  /\ pc' = "hf_blink2"
  /\ UNCHANGED <<variant, i, now, wifi, green, lastCapture,
                 consecutiveFailures, decision, fbOut, sinceFire, failOpen, iter, hist, enc>>

\* digitalWrite(GREEN_LED, HIGH); delay(100)
FaultBlinkGreenOn ==
  /\ pc = "hf_blink2"
  /\ green' = TRUE
  /\ pc' = "hf_off"
  /\ UNCHANGED <<variant, i, now, wifi, red, lastCapture,
                 consecutiveFailures, decision, fbOut, sinceFire, failOpen, iter, hist, enc>>

\* digitalWrite(RED_LED, LOW)
FaultBlinkRedOff ==
  /\ pc = "hf_off"
  /\ red' = FALSE
  /\ pc' = "hf_off2"
  /\ UNCHANGED <<variant, i, now, wifi, green, lastCapture,
                 consecutiveFailures, decision, fbOut, sinceFire, failOpen, iter, hist, enc>>

\* digitalWrite(GREEN_LED, LOW)
FaultBlinkGreenOff ==
  /\ pc = "hf_off2"
  /\ green' = FALSE
  /\ pc' = "ret"
  /\ UNCHANGED <<variant, i, now, wifi, red, lastCapture,
                 consecutiveFailures, decision, fbOut, sinceFire, failOpen, iter, hist, enc>>

\* --------------------------------------------------------- specification
Next ==
  \/ Tick \/ WiFiUp \/ WiFiDown
  \/ SetupBoot \/ SetupPMU \/ SetupCamera \/ SetupWiFiBegin
  \/ ConnectDone \/ ConnectTimeout
  \/ FlashOn \/ FlashOff
  \/ BlinkOn \/ BlinkOff \/ Spin
  \/ LoopCheckUp \/ LoopCheckDown
  \/ GateFire \/ GateSkip
  \/ AcquireOk \/ AcquireFail
  \/ SendMallocOk \/ SendMallocFail \/ SendBuild \/ SendPost
  \/ FbReturn
  \/ ApplyRed \/ ApplyRed2 \/ ApplyGreen \/ ApplyGreen2 \/ ApplyElse
  \/ LoopReturn
  \/ HandleFailure
  \/ FailOpenRed \/ FailOpenGreen
  \/ FaultBlinkRedOn \/ FaultBlinkGreenOn \/ FaultBlinkRedOff \/ FaultBlinkGreenOff

Spec == Init /\ [][Next]_vars

TypeOK ==
  /\ variant \in Variants
  /\ i \in 0..2
  /\ now \in 0..(ClockMod - 1)
  /\ lastCapture \in 0..(ClockMod - 1)
  /\ wifi \in BOOLEAN /\ red \in BOOLEAN /\ green \in BOOLEAN
  /\ consecutiveFailures \in INT_MIN..INT_MAX
  /\ fbOut \in 0..1
  /\ sinceFire \in -1..SinceCap

\* ------------------------------------------- loop() taken as one step
\* The same program with each call of loop() as a single step, for properties
\* of the sequence of iterations.  Setup and the halted states are as above.

\* The clock advances, but never so far past lastCapture that
\* millis() - lastCapture wraps to 0 before loop() has looked at it again.
TickInTime ==
  /\ ElapsedSince(lastCapture) + TickMs < ClockMod
  /\ Tick

\* What sendImageToServer and the calls around it can do in one fired cycle,
\* connected telling whether the POST can reach the server: no frame; no
\* buffer; or a POST with its status and body.
CycleRuns(connected) ==
  {[acq |-> "fail", alloc |-> "none", bodies |-> 0, posts |-> 0, code |-> 0, dec |-> ""],
   [acq |-> "ok", alloc |-> "fail", bodies |-> 0, posts |-> 0, code |-> 0, dec |-> "ERROR"]}
  \cup UNION {
    {[acq |-> "ok", alloc |-> "ok", bodies |-> 1, posts |-> 1, code |-> code,
      dec |-> SendResult(code, resp)] :
        resp \in (IF code = HTTP_CODE_OK THEN {<<b>> : b \in Bodies}
                  ELSE IF code > 0 THEN {<<b>> : b \in ErrorBodies}
                  ELSE {<<>>})} :
      code \in (IF connected THEN HttpCodes ELSE {c \in HttpCodes : c < 0})}

\* loop() returns without a cycle; w is the connection state it leaves
NoCycle(w) ==
  /\ wifi' = w
  /\ iter' = [iter EXCEPT !.down = ~wifi]
  /\ pc' = "ret"
  /\ UNCHANGED <<variant, i, now, red, green, lastCapture, consecutiveFailures,
                 decision, fbOut, sinceFire, failOpen, hist, enc>>

\* a fired cycle that runs as c and ends in the RED or GREEN branch, or in
\* handleFailure with ge the outcome of its comparison
Cycle(w, c, ge) ==
  LET definite == c.dec \in {"RED", "GREEN"}
      streak == IF definite THEN 0 ELSE IncInt(consecutiveFailures)
  IN /\ wifi' = w
     /\ lastCapture' = now
     /\ sinceFire' = 0
     /\ decision' = c.dec
     /\ red' = (c.dec = "RED")
     /\ green' = (IF definite THEN c.dec = "GREEN" ELSE ge)
     /\ consecutiveFailures' = streak
     /\ failOpen' = (IF definite THEN FALSE ELSE failOpen \/ streak >= MAX_FAILURES)
     /\ iter' = [iter EXCEPT !.down = ~wifi, !.fired = TRUE,
                             !.acq = c.acq, !.alloc = c.alloc,
                             !.bodies = c.bodies, !.posts = c.posts,
                             !.hf = IF definite THEN 0 ELSE 1,
                             !.code = IF definite THEN c.code ELSE 0,
                             !.outcome = IF definite THEN c.dec ELSE "UNKNOWN"]
     /\ pc' = "ret"
     /\ UNCHANGED <<variant, i, now, fbOut, hist, enc>>

\* one call of loop(), with `open` the value of the timer comparison
RunLoop(open) ==
  /\ pc = "loop_check"
  /\ IF ~wifi /\ variant = "B"
       THEN NoCycle(wifi)
       ELSE \E w1 \in (IF wifi THEN {TRUE} ELSE BOOLEAN) :
              IF ~open
                THEN NoCycle(w1)
                ELSE \E w2 \in BOOLEAN :
                       \E c \in CycleRuns(w2) :
                         \E ge \in (IF consecutiveFailures = INT_MAX
                                      THEN BOOLEAN
                                      ELSE {consecutiveFailures + 1 >= MAX_FAILURES}) :
                           Cycle(w2, c, ge)

\* faulty loop that stops firing once the fail-safe has been entered
\* (sensitivity of C18)
LoopIteration_GiveUp == RunLoop(GateOpen /\ ~failOpen)
\* loop()
LoopIteration == RunLoop(GateOpen)

\* the steps of the firmware
CycleProg ==
  \/ SetupBoot \/ SetupPMU \/ SetupCamera \/ SetupWiFiBegin
  \/ ConnectDone \/ ConnectTimeout
  \/ FlashOn \/ FlashOff
  \/ BlinkOn \/ BlinkOff
  \/ LoopIteration \/ LoopReturn

CycleNext ==
  \/ TickInTime \/ WiFiUp \/ WiFiDown
  \/ SetupBoot \/ SetupPMU \/ SetupCamera \/ SetupWiFiBegin
  \/ ConnectDone \/ ConnectTimeout
  \/ FlashOn \/ FlashOff
  \/ BlinkOn \/ BlinkOff \/ Spin
  \/ LoopIteration \/ LoopReturn

\* every call returns and the clock keeps running
CycleSpec ==
  /\ Init
  /\ [][CycleNext]_vars
  /\ WF_vars(CycleProg)
  /\ WF_vars(TickInTime)

\* ------------------------------------------- multipart encoder, on its own
\* Bytes are numbers 0..255; Uninit marks a byte of malloc'ed memory that has
\* not been written.
MaxImageLen == 3
ImageBytes == {0, 45, 255}
Uninit == -1
Images == UNION {[1..n -> ImageBytes] : n \in 0..MaxImageLen}

\* "\r\n"
CRLF == <<13, 10>>
\* String boundary = "----ESP32Boundary"
boundary ==
  <<
    45, 45, 45, 45, 69, 83, 80, 51, 50, 66, 111, 117, 110, 100, 97, 114,
    121 >>
\* "Content-Disposition: form-data; name=\"image\"; filename=\"capture.jpg\""
ContentDisposition ==
  <<
    67, 111, 110, 116, 101, 110, 116, 45, 68, 105, 115, 112, 111, 115, 105, 116,
    105, 111, 110, 58, 32, 102, 111, 114, 109, 45, 100, 97, 116, 97, 59, 32,
    110, 97, 109, 101, 61, 34, 105, 109, 97, 103, 101, 34, 59, 32, 102, 105,
    108, 101, 110, 97, 109, 101, 61, 34, 99, 97, 112, 116, 117, 114, 101, 46,
    106, 112, 103, 34 >>
\* "Content-Type: image/jpeg"
ContentType ==
  <<
    67, 111, 110, 116, 101, 110, 116, 45, 84, 121, 112, 101, 58, 32, 105, 109,
    97, 103, 101, 47, 106, 112, 101, 103 >>
\* String head, as built by the three statements
head ==
  (<<45, 45>> \o boundary \o CRLF) \o (ContentDisposition \o CRLF)
    \o (ContentType \o CRLF \o CRLF)
\* String tail = "\r\n--" + boundary + "--\r\n"
tail == CRLF \o <<45, 45>> \o boundary \o <<45, 45>> \o CRLF

\* memcpy(buf + off, src, n)
Memcpy(buf, off, src, n) ==
  [k \in 1..Len(buf) |-> IF off < k /\ k <= off + n THEN src[k - off] ELSE buf[k]]

\* sendImageToServer is entered with some image
EncInit ==
  /\ variant \in Variants
  /\ pc = "boot"
  /\ i = 0
  /\ now = 0
  /\ wifi = FALSE
  /\ red = FALSE
  /\ green = FALSE
  /\ lastCapture = 0
  /\ consecutiveFailures = 0
  /\ decision = ""
  /\ fbOut = 0
  /\ sinceFire = -1
  /\ failOpen = FALSE
  /\ iter = IterStart(0, FALSE, FALSE)
  /\ hist = HistStart
  /\ \E img \in Images : enc = [EncIdle EXCEPT !.pc = "length", !.image = img]

\* size_t totalLen = head.length() + imageLen + tail.length()
EncLength ==
  /\ enc.pc = "length"
  /\ enc' = [enc EXCEPT !.pc = "malloc",
                        !.totalLen = Len(head) + Len(enc.image) + Len(tail)]
  /\ UNCHANGED <<variant, pc, i, now, wifi, red, green, lastCapture,
                 consecutiveFailures, decision, fbOut, sinceFire, failOpen, iter, hist>>

\* malloc(totalLen) succeeds
EncMallocOk ==
  /\ enc.pc = "malloc"
  /\ enc' = [enc EXCEPT !.pc = "copy_head",
                        !.allocated = enc.totalLen,
                        !.body = [k \in 1..enc.totalLen |-> Uninit]]
  /\ UNCHANGED <<variant, pc, i, now, wifi, red, green, lastCapture,
                 consecutiveFailures, decision, fbOut, sinceFire, failOpen, iter, hist>>

\* malloc fails: return "ERROR"
EncMallocFail ==
  /\ enc.pc = "malloc"
  /\ enc' = [enc EXCEPT !.pc = "failed"]
  /\ UNCHANGED <<variant, pc, i, now, wifi, red, green, lastCapture,
                 consecutiveFailures, decision, fbOut, sinceFire, failOpen, iter, hist>>

\* memcpy(body, head.c_str(), head.length())
EncCopyHead ==
  /\ enc.pc = "copy_head"
  /\ enc' = [enc EXCEPT !.pc = "copy_image",
                        !.body = Memcpy(enc.body, 0, head, Len(head))]
  /\ UNCHANGED <<variant, pc, i, now, wifi, red, green, lastCapture,
                 consecutiveFailures, decision, fbOut, sinceFire, failOpen, iter, hist>>

\* memcpy(body + head.length(), imageData, imageLen)
EncCopyImage ==
  /\ enc.pc = "copy_image"
  /\ enc' = [enc EXCEPT !.pc = "copy_tail",
                        !.body = Memcpy(enc.body, Len(head), enc.image, Len(enc.image))]
  /\ UNCHANGED <<variant, pc, i, now, wifi, red, green, lastCapture,
                 consecutiveFailures, decision, fbOut, sinceFire, failOpen, iter, hist>>

\* faulty copy that places the tail one byte early (sensitivity of C15)
EncCopyTail_Early ==
  /\ enc.pc = "copy_tail"
  /\ enc' = [enc EXCEPT !.pc = "post",
                        !.body = Memcpy(enc.body, Len(head) + Len(enc.image) - 1,
                                        tail, Len(tail))]
  /\ UNCHANGED <<variant, pc, i, now, wifi, red, green, lastCapture,
                 consecutiveFailures, decision, fbOut, sinceFire, failOpen, iter, hist>>
\* memcpy(body + head.length() + imageLen, tail.c_str(), tail.length())
EncCopyTail ==
  /\ enc.pc = "copy_tail"
  /\ enc' = [enc EXCEPT !.pc = "post",
                        !.body = Memcpy(enc.body, Len(head) + Len(enc.image),
                                        tail, Len(tail))]
  /\ UNCHANGED <<variant, pc, i, now, wifi, red, green, lastCapture,
                 consecutiveFailures, decision, fbOut, sinceFire, failOpen, iter, hist>>

\* http.POST(body, totalLen) sends the first totalLen bytes at body; free(body)
EncPost ==
  /\ enc.pc = "post"
  /\ enc' = [enc EXCEPT !.pc = "posted",
                        !.postLen = enc.totalLen,
                        !.sent = SubSeq(enc.body, 1, enc.totalLen),
                        !.body = <<>>]
  /\ UNCHANGED <<variant, pc, i, now, wifi, red, green, lastCapture,
                 consecutiveFailures, decision, fbOut, sinceFire, failOpen, iter, hist>>

EncNext ==
  \/ EncLength
  \/ EncMallocOk \/ EncMallocFail
  \/ EncCopyHead \/ EncCopyImage \/ EncCopyTail
  \/ EncPost

EncSpec == EncInit /\ [][EncNext]_vars

\* ================================================================ claims
\* end of a loop() iteration, and the point between two iterations
AtReturn == pc = "ret"
Boundary == pc \in {"ret", "loop_check"}
Definite == {"RED", "GREEN"}
HandlerPcs == {"hf", "hf_open", "hf_open2", "hf_blink", "hf_blink2", "hf_off", "hf_off2"}
SendPcs == {"send_malloc", "send_build", "send_post", "fb_return"}

\* C1: after a cycle whose decision string is exactly RED or GREEN the streak
\* is 0; after a cycle that ends in failure (no frame, allocation failure,
\* POST error or non-200, parse failure, other decision value) the streak is
\* its value before the cycle plus exactly 1; an iteration that fires no
\* cycle leaves the streak as it was.
C1_StreakAccounting ==
  AtReturn =>
    /\ (iter.fired /\ iter.acq = "ok" /\ decision \in Definite
          => consecutiveFailures = 0)
    /\ (iter.fired /\ (iter.acq = "fail" \/ decision \notin Definite)
          => consecutiveFailures = iter.failBefore + 1)
    /\ (~iter.fired => consecutiveFailures = iter.failBefore)

\* C2: once a failing cycle has left the streak >= MAX_FAILURES, at the end of
\* that cycle and at every later cycle boundary RED is off and GREEN is on,
\* until a cycle produces an explicit RED or GREEN decision.
C2_FailOpenHolds ==
  (Boundary /\ failOpen) => (~red /\ green)

\* C3: a cycle that fails with the streak (after its increment) still below
\* the threshold ends with the indicators as they were before the cycle.
C3_BlinkKeepsIndicator ==
  (AtReturn /\ iter.hf > 0 /\ consecutiveFailures < MAX_FAILURES)
    => (red = iter.redBefore /\ green = iter.greenBefore)

\* C4: in an iteration whose connectivity pre-check found the network not
\* connected, no camera acquisition and no HTTP POST is performed.
C4_NoCaptureWhenDown ==
  iter.down => (iter.acq = "none" /\ iter.posts = 0 /\ pc # "acquire")

\* C5: an iteration that starts with the network disconnected leaves
\* consecutiveFailures unchanged.
C5_StreakUntouchedWhenDown ==
  iter.down => consecutiveFailures = iter.failBefore

\* C6: every frame obtained is returned exactly once before the iteration
\* ends, on every path; a failed acquisition is followed by no release: the
\* number of frames out is never negative, is 1 exactly while the frame is in
\* use by sendImageToServer, and is 0 at every cycle boundary.
C6_FrameLifecycle ==
  /\ fbOut >= 0
  /\ fbOut <= 1
  /\ (pc \in SendPcs => fbOut = 1)
  /\ (iter.acq = "fail" => fbOut = 0)
  /\ (Boundary => fbOut = 0)

\* a frame was acquired, the upload failed after the POST, and the frame has
\* been returned by the end of the cycle
C6_Witness ==
  /\ AtReturn
  /\ iter.acq = "ok"
  /\ iter.posts = 1
  /\ decision = "ERROR"
  /\ iter.hf = 1
  /\ fbOut = 0

\* C7: acquisition is attempted only when at least CAPTURE_INTERVAL_MS of
\* time has passed since the previously fired cycle, whether that cycle
\* succeeded or failed; lastCapture is written only when a cycle fires, with
\* the current millis(); an iteration that does not fire acquires nothing,
\* posts nothing and changes neither the indicators nor the streak.
C7_TimerGate ==
  [][ /\ (pc' = "acquire" /\ pc # "acquire")
           => (pc = "gate" /\ (sinceFire = -1 \/ sinceFire >= CAPTURE_INTERVAL_MS))
      /\ (lastCapture' # lastCapture)
           => (pc = "gate" /\ pc' = "acquire" /\ lastCapture' = now)
      /\ (pc' = "ret" /\ ~iter'.fired)
           => /\ iter'.acq = "none" /\ iter'.posts = 0 /\ iter'.bodies = 0
              /\ red' = iter'.redBefore /\ green' = iter'.greenBefore
              /\ consecutiveFailures' = iter'.failBefore ]_vars

\* a cycle has just fired although the previously fired cycle failed
C7_Witness ==
  /\ pc = "acquire"
  /\ iter.fired
  /\ sinceFire = 0
  /\ consecutiveFailures > 0
  /\ lastCapture = now

\* C8: the streak never wraps: it stays non-negative, and once it is at or
\* above MAX_FAILURES it stays there until a RED/GREEN decision resets it.
C8_NoWrap ==
  [][ /\ consecutiveFailures' >= 0
      /\ (consecutiveFailures >= MAX_FAILURES /\ consecutiveFailures' < MAX_FAILURES)
           => (pc \in {"red_2", "green_2"} /\ consecutiveFailures' = 0) ]_vars

C10_AcquireFailure ==
  iter.acq = "fail" =>
    /\ iter.fired
    /\ iter.bodies = 0 /\ iter.posts = 0 /\ iter.code = 0
    /\ pc \in HandlerPcs \cup {"ret"}
    /\ (pc = "hf" => iter.hf = 0 /\ consecutiveFailures = iter.failBefore)
    /\ (pc # "hf" => iter.hf = 1 /\ consecutiveFailures = IncInt(iter.failBefore))
    /\ AtReturn =>
         /\ ~red
         /\ (consecutiveFailures >= MAX_FAILURES => green)
         /\ (consecutiveFailures \in 1..(MAX_FAILURES - 1) => ~green)

\* the camera returned no frame and the cycle has ended
C10_Witness ==
  /\ AtReturn
  /\ iter.acq = "fail"
  /\ iter.hf = 1
  /\ iter.posts = 0
  /\ consecutiveFailures = iter.failBefore + 1

\* positions inside loop() and its callees
LoopPcs ==
  {"loop_check", "loop_connect", "gate", "acquire", "apply", "red_2", "green_2", "ret"}
    \cup SendPcs \cup HandlerPcs

\* C11: loop() runs only after PMU initialisation, then camera
\* initialisation, then the network connection have succeeded, in this
\* order; a failed PMU or camera initialisation leads to the halted state,
\* and the halted state is never left.
C11_StartupOrder ==
  [][ /\ (pc' \in LoopPcs => hist'.inits = <<"pmu", "camera", "wifi">>)
      /\ (pc \in HaltPcs => pc' \in HaltPcs)
      /\ (pc \in {"init_pmu", "init_camera"} /\ pc' # pc /\ hist'.inits = hist.inits)
           => pc' \in HaltPcs ]_vars

\* loop() has been entered and a cycle has fired
C11_Witness ==
  /\ pc = "acquire"
  /\ hist.inits = <<"pmu", "camera", "wifi">>

\* ------------------------------------------------------------- fairness
\* one step of the firmware itself (everything but the clock, the network
\* and the empty spin of while (1);)
Prog ==
  \/ SetupBoot \/ SetupPMU \/ SetupCamera \/ SetupWiFiBegin
  \/ ConnectDone \/ ConnectTimeout
  \/ FlashOn \/ FlashOff
  \/ BlinkOn \/ BlinkOff
  \/ LoopCheckUp \/ LoopCheckDown
  \/ GateFire \/ GateSkip
  \/ AcquireOk \/ AcquireFail
  \/ SendMallocOk \/ SendMallocFail \/ SendBuild \/ SendPost
  \/ FbReturn
  \/ ApplyRed \/ ApplyRed2 \/ ApplyGreen \/ ApplyGreen2 \/ ApplyElse
  \/ LoopReturn
  \/ HandleFailure
  \/ FailOpenRed \/ FailOpenGreen
  \/ FaultBlinkRedOn \/ FaultBlinkGreenOn \/ FaultBlinkRedOff \/ FaultBlinkGreenOff

\* The processor keeps executing and every blocking call (delay, camera,
\* POST, the wait of connectWiFi) returns.
FairSpec == Spec /\ WF_vars(Prog)

\* order of the positions along one pass through loop()
Rank(p) ==
  CASE p = "loop_check" -> 0
    [] p = "loop_connect" -> 1
    [] p = "gate" -> 2
    [] p = "acquire" -> 3
    [] p = "send_malloc" -> 4
    [] p = "send_build" -> 5
    [] p = "send_post" -> 6
    [] p = "fb_return" -> 7
    [] p = "apply" -> 8
    [] p \in {"red_2", "green_2"} -> 9
    [] p = "hf" -> 10
    [] p \in {"hf_open", "hf_blink"} -> 11
    [] p \in {"hf_open2", "hf_blink2"} -> 12
    [] p = "hf_off" -> 13
    [] p = "hf_off2" -> 14
    [] p = "ret" -> 15
    [] OTHER -> -1

\* C12: once loop() runs, nothing (camera miss, allocation failure, transport
\* error, non-200 status, parse failure, connectivity loss) leads to the
\* halted state; at every position of loop() the firmware has a next step
\* whatever the network and the clock do, and every step moves forward along
\* the pass, so that each iteration that starts returns and the next begins.
C12_NoEscalation ==
  /\ []((pc \in LoopPcs) => ENABLED Prog)
  /\ [][(pc \in LoopPcs) =>
          /\ pc' \in LoopPcs
          /\ \/ pc' = pc
             \/ Rank(pc') > Rank(pc)
             \/ pc = "ret" /\ pc' = "loop_check"]_vars

\* the loop is back at idle after repeated failures while disconnected
C12_Witness ==
  /\ pc = "loop_check"
  /\ failOpen
  /\ ~wifi
  /\ hist.last.outcome = "UNKNOWN"

\* C13: after a failed PMU or camera initialisation the system is halted and
\* the fault indicator keeps being switched on and off.
C13_FatalBlink ==
  [](((pc \in HaltPcs) /\ Len(hist.inits) < 2) => (<>red /\ <>~red))

\* C14: when a fired cycle applies RED (or GREEN) from a valid response and
\* the fired cycle before it did the same, the indicator levels after it are
\* those left by the earlier cycle, and the streak is 0 after both.
C14_Idempotence ==
  (/\ AtReturn
   /\ iter.fired
   /\ iter.outcome \in Definite
   /\ CycleSummary.ok
   /\ hist.last.ok
   /\ hist.last.outcome = iter.outcome)
    => /\ red = hist.last.red
       /\ green = hist.last.green
       /\ consecutiveFailures = 0
       /\ hist.last.streak = 0

\* a second GREEN cycle in a row has just ended
C14_Witness ==
  /\ AtReturn
  /\ iter.fired
  /\ iter.outcome = "GREEN"
  /\ CycleSummary.ok
  /\ hist.last.ok
  /\ hist.last.outcome = "GREEN"

\* C15: the bytes handed to POST number len(head) + L + len(tail); they begin
\* with the head, end with the tail, and carry the L image bytes unchanged in
\* between; the length given to POST is the size that was allocated.
C15_BodyRoundTrip ==
  enc.pc = "posted" =>
    LET L == Len(enc.image)
        n == Len(enc.sent)
    IN /\ n = Len(head) + L + Len(tail)
       /\ SubSeq(enc.sent, 1, Len(head)) = head
       /\ SubSeq(enc.sent, n - Len(tail) + 1, n) = tail
       /\ SubSeq(enc.sent, Len(head) + 1, Len(head) + L) = enc.image
       /\ enc.postLen = enc.allocated

\* a body has been posted for an image that contains the boundary's dash byte
C15_Witness ==
  /\ enc.pc = "posted"
  /\ Len(enc.image) >= 2
  /\ \E k \in 1..Len(enc.image) : enc.image[k] = 45

\* two response bodies that differ at most in the cars field
SameButCars(b1, b2) ==
  /\ b1.wf = b2.wf
  /\ b1.hasDecision = b2.hasDecision
  /\ b1.decision = b2.decision

\* C16: once an HTTP-200 response has been read, the decision the loop works
\* with is the one every response differing only in cars would have given,
\* and what the cycle then does to the indicators and the streak follows from
\* that decision and the streak before the cycle alone; in particular a
\* GREEN decision is applied as GREEN whatever the count.
C16_CarsIgnored ==
  /\ (iter.code = HTTP_CODE_OK /\ iter.resp # <<>>) =>
       \A b2 \in Bodies :
         SameButCars(iter.resp[1], b2) => decision = SendResult(HTTP_CODE_OK, <<b2>>)
  /\ (AtReturn /\ iter.posts = 1) =>
       /\ decision = "RED" => (red /\ ~green /\ consecutiveFailures = 0)
       /\ decision = "GREEN" => (green /\ ~red /\ consecutiveFailures = 0)
       /\ decision \notin Definite =>
            /\ consecutiveFailures = IncInt(iter.failBefore)
            /\ ~red
            /\ iter.failBefore # INT_MAX =>
                 (green <=> iter.failBefore + 1 >= MAX_FAILURES)

\* cars = 1 with decision GREEN: the GREEN branch is being applied
C16_Witness ==
  /\ pc = "green_2"
  /\ iter.code = HTTP_CODE_OK
  /\ iter.resp # <<>>
  /\ iter.resp[1].hasCars
  /\ iter.resp[1].cars = 1
  /\ decision = "GREEN"

\* C17: in a cycle whose body allocation failed no POST is issued and no body
\* is built, "ERROR" goes back to loop(), the frame is released before the
\* result is acted on, and the cycle ends with handleFailure having run once:
\* the streak is its value before the cycle incremented once.
C17_AllocFailure ==
  iter.alloc = "fail" =>
    /\ iter.posts = 0
    /\ iter.bodies = 0
    /\ pc \in {"fb_return", "apply", "ret"} \cup HandlerPcs
    /\ decision = "ERROR"
    /\ pc # "fb_return" => fbOut = 0
    /\ iter.hf = (IF pc \in {"fb_return", "apply", "hf"} THEN 0 ELSE 1)
    /\ consecutiveFailures =
         (IF iter.hf = 1 THEN IncInt(iter.failBefore) ELSE iter.failBefore)

\* a cycle in which malloc failed has ended
C17_Witness ==
  /\ AtReturn
  /\ iter.alloc = "fail"
  /\ iter.acq = "ok"

\* positions inside handleFailure's blink at which RED_LED has been raised
\* and not yet lowered
BlinkPcs == {"hf_blink2", "hf_off"}

\* C19 as stated: between iterations RED and GREEN are never both on; while
\* loop() runs they are both on only inside handleFailure's fault blink, and
\* the blink ends with both off.
C19_BothOnOnlyInBlink ==
  /\ [](Boundary => ~(red /\ green))
  /\ []((pc \in LoopPcs /\ red /\ green) => pc \in BlinkPcs)
  /\ [][(pc = "hf_off2" /\ pc' = "ret") => (~red' /\ ~green')]_vars

\* C19, amended: between iterations RED and GREEN are never both on; while
\* loop() runs they are both on only inside handleFailure's fault blink or
\* between the two writes of the RED branch (RED_LED raised, GREEN_LED not yet
\* lowered); the blink ends with both off and the RED branch with GREEN off.
C19_MutualExclusion ==
  /\ [](Boundary => ~(red /\ green))
  /\ []((pc \in LoopPcs /\ red /\ green) => pc \in BlinkPcs \cup {"red_2"})
  /\ [][(pc = "hf_off2" /\ pc' = "ret") => (~red' /\ ~green')]_vars
  /\ [][(pc = "red_2" /\ pc' = "ret") => (red' /\ ~green')]_vars

\* a RED decision follows GREEN: RED_LED is already on, GREEN_LED still on
C19_Witness ==
  /\ pc = "red_2"
  /\ red
  /\ green

\* the most recently fired cycle: the one that is ending, or the last one
\* before the current iteration
LastFired == IF pc = "ret" /\ iter.fired THEN CycleSummary ELSE hist.last

\* C20: between iterations RED on means that the streak is 0 and that the
\* most recently fired cycle had a frame, an HTTP 200 and a decision string
\* equal to RED; a cycle that ended in handleFailure (whatever the body of a
\* non-200 response said, fail-open included) leaves RED off.
C20_RedOnAuthority ==
  Boundary =>
    /\ red => /\ consecutiveFailures = 0
              /\ LastFired.outcome = "RED"
              /\ LastFired.ok
    /\ LastFired.outcome = "UNKNOWN" => ~red

\* RED is on between iterations after a cycle that applied RED
C20_Witness ==
  /\ pc = "loop_check"
  /\ red
  /\ hist.last.outcome = "RED"
  /\ hist.last.ok

\* a fired cycle is ending
CycleFired == pc = "ret" /\ iter.fired

\* C18: if from some time on the network stays connected, then from any point
\* of the running loop a capture cycle fires again, whatever happened before
\* (iterations that found the network down, failed reconnections, failures).
C18_ResumesAfterReconnect ==
  (<>[]wifi) => ((pc = "loop_check") ~> CycleFired)

\* loop() found the network down, connectWiFi() succeeded, and the cycle
\* fired in the same iteration while the streak stood at the fail-safe level
C18_Witness ==
  /\ CycleFired
  /\ iter.down
  /\ wifi
  /\ iter.failBefore >= MAX_FAILURES

\* C21: in a cycle the frame is obtained while none is out; its bytes are
\* copied into the request body, and the body is posted, while the frame is
\* still out; the frame is returned only after the POST (or after the failed
\* allocation); the indicators and the streak are written only when no frame
\* is out; and once the frame has been returned the iteration is past every
\* position that reads it.
C21_NoUseAfterRelease ==
  [][ /\ (fbOut' > fbOut) => (fbOut = 0 /\ pc = "acquire")
      /\ (iter'.bodies > iter.bodies) => (fbOut = 1 /\ fbOut' = 1 /\ iter.acq = "ok")
      /\ (iter'.posts > iter.posts) => (fbOut = 1 /\ fbOut' = 1 /\ iter.bodies = 1)
      /\ (fbOut' < fbOut) =>
           (iter.acq = "ok" /\ (iter.posts = 1 \/ iter.alloc = "fail") /\ fbOut' = 0)
      /\ ((pc \in LoopPcs) /\
          (red' # red \/ green' # green \/ consecutiveFailures' # consecutiveFailures))
           => (fbOut = 0 /\ fbOut' = 0)
      /\ (iter'.acq = "ok" /\ fbOut' = 0)
           => pc' \in {"apply", "red_2", "green_2", "ret"} \cup HandlerPcs ]_vars

\* the frame has been copied, posted and returned, and the RED branch is
\* about to write the indicators
C21_Witness ==
  /\ pc = "apply"
  /\ iter.acq = "ok"
  /\ iter.bodies = 1
  /\ iter.posts = 1
  /\ fbOut = 0
  /\ decision = "RED"

\* the clock has wrapped since lastCapture was written
Wrapped == now < lastCapture

\* C22: as long as loop() looks at the clock before it has run a whole period
\* of the counter past lastCapture, the unsigned difference
\* millis() - lastCapture is the real time since the last fired cycle, also
\* when the clock has wrapped in between; so a cycle fires only when at least
\* CAPTURE_INTERVAL_MS of real time have passed since the previous one, and
\* after a wrap the gate opens again: the loop is not left waiting forever,
\* and with the network connected a cycle fires.
C22_GateAcrossWrap ==
  /\ []((pc \in LoopPcs /\ sinceFire # -1) => ElapsedSince(lastCapture) = sinceFire)
  /\ [][(iter'.fired /\ ~iter.fired) =>
          (lastCapture' = now /\ (sinceFire = -1 \/ sinceFire >= CAPTURE_INTERVAL_MS))]_vars
  /\ ((pc = "loop_check" /\ Wrapped) ~> (pc = "loop_check" /\ GateOpen))
  /\ ((<>[]wifi) => ((pc = "loop_check" /\ Wrapped) ~> CycleFired))

\* a cycle fires at a clock reading below lastCapture: the counter has
\* wrapped since the previous cycle
C22_Witness ==
  /\ CycleFired
  /\ lastCapture = now
  /\ hist.last.outcome # "none"
  /\ sinceFire = 0
  /\ now < CAPTURE_INTERVAL_MS

====
